---------------------------- MODULE Spec2Model ----------------------------
(***************************************************************************)
(* A model of the SQL assistant's text-analysis helpers                    *)
(* (src/src/mastra/tools/sql-tool.ts: validateSQL, formatSQL,              *)
(* getSchemaInfo, explainSQL, optimizeSQL) and of its three judge-based    *)
(* scorers (src/unnamed/part_000).                                         *)
(*                                                                         *)
(* A JavaScript string is a sequence of characters; a character is a       *)
(* one-character TLA+ string, except DotlessI, which stands for the single *)
(* character U+0131.  Every string operation of the source (toUpperCase,   *)
(* trim, includes, the regular expressions) is an operator on such         *)
(* sequences.                                                              *)
(***************************************************************************)
EXTENDS Integers, Sequences, FiniteSets, TLC

VARIABLES
    sql,        \* the text handed to the sql tools
    dialect,    \* validateSQL's dialect argument
    tableType,  \* getSchemaInfo's argument
    called,     \* the tools that have run on the input
    vres,       \* validateSQL's result
    fres,       \* formatSQL's results: <<>>, <<once>>, <<once, twice>>
    sres,       \* getSchemaInfo's result
    eres,       \* explainSQL's result
    ores,       \* optimizeSQL's result
    verdict,    \* per scorer: the judge's analyzeStepResult
    score,      \* per scorer: <<>> or <<the generateScore value>>
    run,        \* the scored run: the assistant's text and the user's text
    stage,      \* per scorer: the position of its pipeline
    pre,        \* per scorer: <<>> or <<the preprocess result>>
    reason,     \* per scorer: <<>> or <<the generateReason value>>
    step        \* the generate-sql workflow step

toolVars == <<sql, dialect, tableType, called, vres, fres, sres, eres, ores>>

agentVars == <<run, stage, pre, reason, step>>

vars == <<sql, dialect, tableType, called, vres, fres, sres, eres, ores,
          verdict, score, run, stage, pre, reason, step>>

-----------------------------------------------------------------------------
(* Characters *)

LowerLetters ==
    <<"a","b","c","d","e","f","g","h","i","j","k","l","m",
      "n","o","p","q","r","s","t","u","v","w","x","y","z">>

UpperLetters ==
    <<"A","B","C","D","E","F","G","H","I","J","K","L","M",
      "N","O","P","Q","R","S","T","U","V","W","X","Y","Z">>

\* U+0131 LATIN SMALL LETTER DOTLESS I: its upper case is the ASCII "I".
DotlessI == "U+0131"

Digits == {"0","1","2","3","4","5","6","7","8","9"}

LowerSet == {LowerLetters[i] : i \in 1..26}

UpperSet == {UpperLetters[i] : i \in 1..26}

Alphabet ==
    LowerSet \cup UpperSet \cup Digits \cup
    {DotlessI, " ", "\t", "\n", "_", "*", "(", ")", ",", "%", "=", "'"}

LetterIndex(c, letters) == CHOOSE i \in 1..26 : letters[i] = c

\* String.prototype.toUpperCase on one character (Unicode case mapping).
ToUpperMap ==
    [c \in Alphabet |->
        IF c \in LowerSet THEN UpperLetters[LetterIndex(c, LowerLetters)]
        ELSE IF c = DotlessI THEN "I"
        ELSE c]

\* String.prototype.toLowerCase on one character.
ToLowerMap ==
    [c \in Alphabet |->
        IF c \in UpperSet THEN LowerLetters[LetterIndex(c, UpperLetters)]
        ELSE c]

\* Canonicalize of a case-insensitive regular expression without the u flag:
\* the upper case of the character, except that a character outside ASCII
\* whose upper case is inside ASCII stays itself.
RegexCanonMap ==
    [c \in Alphabet |->
        IF c \in LowerSet THEN UpperLetters[LetterIndex(c, LowerLetters)]
        ELSE c]

\* \s of a regular expression, and the characters trim() removes.
IsSpace(c) == c \in {" ", "\t", "\n"}

\* \w of a regular expression.
IsWord(c) == c \in LowerSet \cup UpperSet \cup Digits \cup {"_"}

-----------------------------------------------------------------------------
(* Strings *)

toUpperCase(s) == [i \in 1..Len(s) |-> ToUpperMap[s[i]]]

toLowerCase(s) == [i \in 1..Len(s) |-> ToLowerMap[s[i]]]

\* pat occurs in s at position i, character for character.
MatchAt(s, i, pat) ==
    /\ i + Len(pat) - 1 <= Len(s)
    /\ \A k \in 1..Len(pat) : s[i + k - 1] = pat[k]

\* pat occurs in s at position i under the regular expression flag i.
MatchAtCI(s, i, pat) ==
    /\ i + Len(pat) - 1 <= Len(s)
    /\ \A k \in 1..Len(pat) : RegexCanonMap[s[i + k - 1]] = RegexCanonMap[pat[k]]

\* String.prototype.includes
includes(s, pat) == \E i \in 1..(Len(s) - Len(pat) + 1) : MatchAt(s, i, pat)

\* String.prototype.trim
trim(s) ==
    LET keep == {i \in 1..Len(s) : ~IsSpace(s[i])}
    IN  IF keep = {} THEN <<>>
        ELSE SubSeq(s, CHOOSE i \in keep : \A j \in keep : i <= j,
                       CHOOSE i \in keep : \A j \in keep : j <= i)

\* The position after the run of \s characters that starts at i.
RECURSIVE SkipSpaces(_, _)
SkipSpaces(s, i) ==
    IF i <= Len(s) /\ IsSpace(s[i]) THEN SkipSpaces(s, i + 1) ELSE i

\* The position after the run of \w characters that starts at i.
RECURSIVE SkipWord(_, _)
SkipWord(s, i) ==
    IF i <= Len(s) /\ IsWord(s[i]) THEN SkipWord(s, i + 1) ELSE i

\* \b of a regular expression, just before position i.
WordBoundary(s, i) ==
    (i > 1 /\ IsWord(s[i - 1])) # (i <= Len(s) /\ IsWord(s[i]))

RECURSIVE Concat(_)
Concat(ss) == IF ss = <<>> THEN <<>> ELSE Head(ss) \o Concat(Tail(ss))

-----------------------------------------------------------------------------
(* Literals of the source *)

S_SELECT == <<"S","E","L","E","C","T">>
S_INSERT == <<"I","N","S","E","R","T">>
S_UPDATE == <<"U","P","D","A","T","E">>
S_DELETE == <<"D","E","L","E","T","E">>
S_CREATE == <<"C","R","E","A","T","E">>
S_DROP == <<"D","R","O","P">>
S_ALTER == <<"A","L","T","E","R">>
S_FROM == <<"F","R","O","M">>
S_WHERE == <<"W","H","E","R","E">>
S_JOIN == <<"J","O","I","N">>
S_INNER == <<"I","N","N","E","R">>
S_LEFT == <<"L","E","F","T">>
S_RIGHT == <<"R","I","G","H","T">>
S_FULL == <<"F","U","L","L">>
S_CROSS == <<"C","R","O","S","S">>
S_GROUP_BY == <<"G","R","O","U","P"," ","B","Y">>
S_HAVING == <<"H","A","V","I","N","G">>
S_ORDER_BY == <<"O","R","D","E","R"," ","B","Y">>
S_LIMIT == <<"L","I","M","I","T">>
S_OFFSET == <<"O","F","F","S","E","T">>
S_INSERT_INTO == S_INSERT \o <<" ","I","N","T","O">>
S_VALUES == <<"V","A","L","U","E","S">>
S_SET == <<"S","E","T">>
S_DELETE_FROM == S_DELETE \o <<" ">> \o S_FROM
S_INNER_JOIN == S_INNER \o <<" ">> \o S_JOIN
S_LEFT_JOIN == S_LEFT \o <<" ">> \o S_JOIN
S_RIGHT_JOIN == S_RIGHT \o <<" ">> \o S_JOIN
S_SELECT_STAR == S_SELECT \o <<" ", "*">>
S_NOT_IN == <<"N","O","T"," ","I","N">>
S_NOT_EXISTS == <<"N","O","T"," ","E","X","I","S","T","S">>
S_LIKE == <<"L","I","K","E">>
S_OR == <<"O","R">>

-----------------------------------------------------------------------------
(* formatSQL *)

\* sql.replace(/\s+/g, " "): every maximal run of white space becomes one space.
RECURSIVE CollapseFrom(_, _)
CollapseFrom(s, i) ==
    IF i > Len(s) THEN <<>>
    ELSE IF IsSpace(s[i]) THEN <<" ">> \o CollapseFrom(s, SkipSpaces(s, i))
    ELSE <<s[i]>> \o CollapseFrom(s, i + 1)

\* The keyword list of formatSQL, in its order.
FormatKeywords ==
    << S_SELECT, S_FROM, S_WHERE, S_JOIN, S_INNER_JOIN, S_LEFT_JOIN,
       S_RIGHT_JOIN, S_GROUP_BY, S_HAVING, S_ORDER_BY, S_LIMIT, S_OFFSET,
       S_INSERT_INTO, S_VALUES, S_UPDATE, S_SET, S_DELETE_FROM >>

\* new RegExp(`${keyword}\\b`, "gi"): the pattern with its leading \b lost.
KeywordMatchNoLeadingBoundary(s, i, kw) ==
    MatchAtCI(s, i, kw) /\ WordBoundary(s, i + Len(kw))

\* new RegExp(`\\b${keyword}\\b`, "gi") matches at position i.
KeywordMatch(s, i, kw) ==
    WordBoundary(s, i) /\ MatchAtCI(s, i, kw) /\ WordBoundary(s, i + Len(kw))

\* formatted.replace(regex, `\n${keyword.toUpperCase()}`), from position i on:
\* the matches are taken leftmost first and do not overlap.
RECURSIVE ReplaceKeywordFrom(_, _, _)
ReplaceKeywordFrom(s, i, kw) ==
    IF i > Len(s) THEN <<>>
    ELSE IF KeywordMatch(s, i, kw)
         THEN <<"\n">> \o toUpperCase(kw) \o ReplaceKeywordFrom(s, i + Len(kw), kw)
    ELSE <<s[i]>> \o ReplaceKeywordFrom(s, i + 1, kw)

\* keywords.forEach(...), from the k-th keyword on.
RECURSIVE ReplaceKeywords(_, _)
ReplaceKeywords(s, k) ==
    IF k > Len(FormatKeywords) THEN s
    ELSE ReplaceKeywords(ReplaceKeywordFrom(s, 1, FormatKeywords[k]), k + 1)

\* s.split("\n"), from position i on, cur being the line read so far.
RECURSIVE SplitLinesFrom(_, _, _)
SplitLinesFrom(s, i, cur) ==
    IF i > Len(s) THEN <<cur>>
    ELSE IF s[i] = "\n" THEN <<cur>> \o SplitLinesFrom(s, i + 1, <<>>)
    ELSE SplitLinesFrom(s, i + 1, Append(cur, s[i]))

\* lines.join("\n")
RECURSIVE JoinLines(_)
JoinLines(lines) ==
    IF lines = <<>> THEN <<>>
    ELSE IF Len(lines) = 1 THEN lines[1]
    ELSE lines[1] \o <<"\n">> \o JoinLines(Tail(lines))

\* .map((line) => line.trim()).filter((line) => line.length > 0)
TrimmedNonEmpty(lines) ==
    SelectSeq([k \in 1..Len(lines) |-> trim(lines[k])], LAMBDA l : Len(l) > 0)

formatSQL(s) ==
    LET collapsed == trim(CollapseFrom(s, 1))
        replaced  == ReplaceKeywords(collapsed, 1)
    IN  JoinLines(TrimmedNonEmpty(SplitLinesFrom(replaced, 1, <<>>)))

-----------------------------------------------------------------------------
(* validateSQL *)

W_NoKeywords == "Query does not contain standard SQL keywords"
W_SelectStar ==
    "Using SELECT * can impact performance. Consider specifying columns explicitly."
W_NoWhere ==
    "UPDATE/DELETE without WHERE clause will affect all rows. Be cautious!"
G_ExplicitJoin ==
    "Consider using explicit JOIN type (INNER, LEFT, RIGHT, etc.) for clarity"
G_Postgres ==
    "PostgreSQL supports RETURNING clause for INSERT/UPDATE/DELETE operations"
G_MySQL == "MySQL supports LIMIT clause for result pagination"

\* The sqlKeywords list of validateSQL.
SqlKeywords ==
    << S_SELECT, S_INSERT, S_UPDATE, S_DELETE, S_CREATE, S_DROP, S_ALTER,
       S_FROM, S_WHERE, S_JOIN >>

\* sqlKeywords with its last entry lost.
HasKeywordWithoutJoin(upper) ==
    \E k \in 1..(Len(SqlKeywords) - 1) : includes(upper, SqlKeywords[k])

\* sqlKeywords.some((keyword) => trimmedSQL.toUpperCase().includes(keyword))
HasKeyword(upper) ==
    \E k \in 1..Len(SqlKeywords) : includes(upper, SqlKeywords[k])

\* upper.match(/INNER|LEFT|RIGHT|FULL|CROSS\s+JOIN/): the alternation binds
\* weaker than the sequence, so \s+JOIN belongs to CROSS alone.
MatchesJoinType(upper) ==
    \/ includes(upper, S_INNER)
    \/ includes(upper, S_LEFT)
    \/ includes(upper, S_RIGHT)
    \/ includes(upper, S_FULL)
    \/ \E i \in 1..Len(upper) :
          /\ MatchAt(upper, i, S_CROSS)
          /\ SkipSpaces(upper, i + Len(S_CROSS)) > i + Len(S_CROSS)
          /\ MatchAt(upper, SkipSpaces(upper, i + Len(S_CROSS)), S_JOIN)

\* The condition of the UPDATE/DELETE warning with its WHERE test lost.
MissingWhereIgnoringWhere(upper) ==
    includes(upper, S_UPDATE) \/ includes(upper, S_DELETE)

\* The condition of the UPDATE/DELETE warning.
MissingWhere(upper) ==
    /\ includes(upper, S_UPDATE) \/ includes(upper, S_DELETE)
    /\ ~includes(upper, S_WHERE)

validateSQL(s, d) ==
    LET trimmedSQL == trim(s)
        upper      == toUpperCase(trimmedSQL)
        hasKeyword == HasKeyword(upper)
        w1 == IF ~hasKeyword THEN <<W_NoKeywords>> ELSE <<>>
        w2 == IF includes(upper, S_SELECT_STAR) THEN <<W_SelectStar>> ELSE <<>>
        w3 == IF MissingWhere(upper) THEN <<W_NoWhere>> ELSE <<>>
        g1 == IF includes(upper, S_JOIN) /\ ~MatchesJoinType(upper)
              THEN <<G_ExplicitJoin>> ELSE <<>>
        g2 == IF d = "postgresql" THEN <<G_Postgres>>
              ELSE IF d = "mysql" THEN <<G_MySQL>>
              ELSE <<>>
    IN  [ isValid     |-> hasKeyword,
          formatted   |-> formatSQL(trimmedSQL),
          warnings    |-> w1 \o w2 \o w3,
          suggestions |-> g1 \o g2 ]

-----------------------------------------------------------------------------
(* Inputs *)

\* The texts made of at most n pieces of the set pieces.
Texts(pieces, n) ==
    {Concat(ps) : ps \in UNION {[1..k -> pieces] : k \in 0..n}}

Range(f) == {f[i] : i \in DOMAIN f}

NoValidation ==
    [isValid |-> TRUE, formatted |-> <<>>, warnings |-> <<>>, suggestions |-> <<>>]

\* The state before any tool has run on the text s.
Fresh(s, d, t) ==
    /\ sql = s
    /\ dialect = d
    /\ tableType = t
    /\ called = {}
    /\ vres = NoValidation
    /\ fres = <<>>
    /\ sres = <<>>
    /\ eres = <<>>
    /\ ores = <<>>
    /\ verdict = <<>>
    /\ score = <<>>
    /\ run = <<>>
    /\ stage = <<>>
    /\ pre = <<>>
    /\ reason = <<>>
    /\ step = <<>>

-----------------------------------------------------------------------------
(* The validator tool *)

MaxValidatePieces == 3

ValidatePieces ==
    { <<" ">>, <<"x">>, <<"s","e","l","e","c","t">>, S_UPDATE,
      <<"d","e","l","e","t","e">>, S_WHERE, <<"J","o","i","n">>, S_LEFT,
      S_CROSS }

\* The dialect the caller passes: absent, or one of the enumeration.
Dialects == {"undefined", "mysql", "sqlite"}

InitValidate ==
    \E s \in Texts(ValidatePieces, MaxValidatePieces), d \in Dialects :
        Fresh(s, d, <<>>)

\* sqlValidatorTool.execute
ValidateTool ==
    /\ "validate" \notin called
    /\ called' = called \cup {"validate"}
    /\ vres' = validateSQL(sql, IF dialect = "undefined" THEN "postgresql" ELSE dialect)
    /\ UNCHANGED <<sql, dialect, tableType, fres, sres, eres, ores, verdict, score, agentVars>>

NextValidate == ValidateTool

SpecValidate == InitValidate /\ [][NextValidate]_vars

-----------------------------------------------------------------------------
(* The formatter, applied to a text and then to its own output *)

MaxFormatPieces == 3

FormatPieces ==
    { <<" ">>, <<"x">>, <<"(">>, <<"j","o","i","n">>, S_FROM, S_LEFT,
      S_DELETE, <<"S","e","t">>, <<"o","f","f">>, <<"\n">> }

InitFormat == \E s \in Texts(FormatPieces, MaxFormatPieces) : Fresh(s, "undefined", <<>>)

FormatOnce ==
    /\ fres = <<>>
    /\ fres' = <<formatSQL(sql)>>
    /\ UNCHANGED <<sql, dialect, tableType, called, vres, sres, eres, ores, verdict, score, agentVars>>

FormatAgain ==
    /\ Len(fres) = 1
    /\ fres' = Append(fres, formatSQL(fres[1]))
    /\ UNCHANGED <<sql, dialect, tableType, called, vres, sres, eres, ores, verdict, score, agentVars>>

NextFormat == FormatOnce \/ FormatAgain

SpecFormat == InitFormat /\ [][NextFormat]_vars

-----------------------------------------------------------------------------
(* getSchemaInfo *)

K_users == <<"u","s","e","r","s">>
K_products == <<"p","r","o","d","u","c","t","s">>
K_orders == <<"o","r","d","e","r","s">>
K_constructor == <<"c","o","n","s","t","r","u","c","t","o","r">>
K_proto == <<"_","_","p","r","o","t","o","_","_">>

\* A template literal: its text and the value interpolated into it.
Template(text, arg) == [text |-> text, arg |-> arg]

\* The own properties of the schemas object.
Schemas(key) ==
    IF key = K_users THEN
        [ commonColumns |->
              <<"id", "username", "email", "password_hash", "created_at",
                "updated_at", "first_name", "last_name", "is_active">>,
          relationships |->
              <<"users have many orders", "users have many posts",
                "users belong to many roles">>,
          examples |->
              << Template("SELECT * FROM users WHERE email = 'user@example.com'", <<>>),
                 Template("SELECT id, username, email FROM users WHERE is_active = true ORDER BY created_at DESC", <<>>),
                 Template("SELECT COUNT(*) FROM users WHERE created_at > '2024-01-01'", <<>>) >> ]
    ELSE IF key = K_products THEN
        [ commonColumns |->
              <<"id", "name", "description", "price", "stock_quantity",
                "category_id", "sku", "created_at", "updated_at">>,
          relationships |->
              <<"products belong to categories", "products have many order_items",
                "products have many reviews">>,
          examples |->
              << Template("SELECT * FROM products WHERE price < 100 AND stock_quantity > 0", <<>>),
                 Template("SELECT name, price FROM products WHERE category_id = 5 ORDER BY price ASC", <<>>),
                 Template("SELECT AVG(price) as avg_price FROM products GROUP BY category_id", <<>>) >> ]
    ELSE
        [ commonColumns |->
              <<"id", "user_id", "total_amount", "status", "order_date",
                "shipping_address", "payment_method", "created_at">>,
          relationships |->
              <<"orders belong to users", "orders have many order_items",
                "orders have one payment">>,
          examples |->
              << Template("SELECT * FROM orders WHERE user_id = 123 ORDER BY order_date DESC", <<>>),
                 Template("SELECT COUNT(*) as order_count, SUM(total_amount) as total_revenue FROM orders WHERE status = 'completed'", <<>>),
                 Template("SELECT o.id, u.username FROM orders o JOIN users u ON o.user_id = u.id", <<>>) >> ]

SchemaKeys == {K_users, K_products, K_orders}

\* schemas is an object literal, so schemas[key] also finds what the object
\* inherits from Object.prototype.  Of the inherited names only constructor
\* and __proto__ are all lower case; both values are truthy.
InheritedKeys == {K_constructor, K_proto}

Inherited(key) ==
    IF key = K_constructor THEN [builtin |-> "Object"]
    ELSE [builtin |-> "Object.prototype"]

\* The generic record of getSchemaInfo, built around the caller's text.
FallbackSchema(t) ==
    [ commonColumns |-> <<"id", "name", "created_at", "updated_at">>,
      relationships |-> <<"Depends on your specific database schema">>,
      examples      |-> << Template("SELECT * FROM ${tableType} LIMIT 10", t) >> ]

getSchemaInfo(t) ==
    LET lowerTableType == toLowerCase(t)
    IN  IF lowerTableType \in SchemaKeys THEN Schemas(lowerTableType)
        ELSE IF lowerTableType \in InheritedKeys THEN Inherited(lowerTableType)
        ELSE FallbackSchema(t)

MaxTablePieces == 2

TablePieces ==
    { K_users, <<"U","s","e","r","s">>, <<"P","R","O","D","U","C","T","S">>,
      K_orders, <<"w","i","d","g","e","t","s">>, K_constructor,
      <<"_","_","P","r","o","t","o","_","_">>, <<"s">>, <<" ">> }

InitSchema == \E t \in Texts(TablePieces, MaxTablePieces) : Fresh(<<>>, "undefined", t)

\* schemaInfoTool.execute
SchemaInfoTool ==
    /\ "schema" \notin called
    /\ called' = called \cup {"schema"}
    /\ sres' = <<getSchemaInfo(tableType)>>
    /\ UNCHANGED <<sql, dialect, tableType, vres, fres, eres, ores, verdict, score, agentVars>>

NextSchema == SchemaInfoTool

SpecSchema == InitSchema /\ [][NextSchema]_vars

-----------------------------------------------------------------------------
(* explainSQL *)

\* One step of explainSQL: the fragments it appends to the explanation and
\* the components it pushes.
Step(fragments, components) == [fragments |-> fragments, components |-> components]

NoStep == Step(<<>>, <<>>)

Component(part, description) == [part |-> part, description |-> description]

\* sql.match(/SELECT\s+\*/i)
MatchesSelectStar(s) ==
    \E i \in 1..Len(s) :
        /\ MatchAtCI(s, i, S_SELECT)
        /\ SkipSpaces(s, i + Len(S_SELECT)) > i + Len(S_SELECT)
        /\ MatchAt(s, SkipSpaces(s, i + Len(S_SELECT)), <<"*">>)

\* The positions where /FROM\s+(\w+)/i matches.
FromMatches(s) ==
    {i \in 1..Len(s) :
        /\ MatchAtCI(s, i, S_FROM)
        /\ SkipSpaces(s, i + Len(S_FROM)) > i + Len(S_FROM)
        /\ SkipWord(s, SkipSpaces(s, i + Len(S_FROM))) > SkipSpaces(s, i + Len(S_FROM))}

\* fromMatch[1]: the word captured by the leftmost match.
FromCapture(s) ==
    LET i     == CHOOSE m \in FromMatches(s) : \A n \in FromMatches(s) : m <= n
        start == SkipSpaces(s, i + Len(S_FROM))
    IN  SubSeq(s, start, SkipWord(s, start) - 1)

\* The four statement keywords taken as independent ifs instead of else-ifs.
ExplainStatementNotExclusive(s, upperSQL) ==
    LET one(kw, fragment, description) ==
            IF includes(upperSQL, kw)
            THEN Step(<<Template(fragment, <<>>)>>,
                      <<Component(kw, Template(description, <<>>))>>)
            ELSE NoStep
        a == one(S_SELECT, "retrieves data ", "Specifies which columns to retrieve")
        b == one(S_INSERT, "inserts new data ", "Adds new rows to a table")
        c == one(S_UPDATE, "modifies existing data ", "Changes existing rows in a table")
        d == one(S_DELETE, "removes data ", "Removes rows from a table")
    IN  Step(a.fragments \o b.fragments \o c.fragments \o d.fragments,
             a.components \o b.components \o c.components \o d.components)

\* The if / else-if chain over SELECT, INSERT, UPDATE, DELETE.
ExplainStatement(s, upperSQL) ==
    IF includes(upperSQL, S_SELECT) THEN
        Step(<<Template("retrieves data ", <<>>)>>,
             <<Component(S_SELECT, Template("Specifies which columns to retrieve", <<>>))>>
             \o (IF MatchesSelectStar(s)
                 THEN <<Component(S_SELECT_STAR,
                                  Template("Selects all columns from the table", <<>>))>>
                 ELSE <<>>))
    ELSE IF includes(upperSQL, S_INSERT) THEN
        Step(<<Template("inserts new data ", <<>>)>>,
             <<Component(S_INSERT, Template("Adds new rows to a table", <<>>))>>)
    ELSE IF includes(upperSQL, S_UPDATE) THEN
        Step(<<Template("modifies existing data ", <<>>)>>,
             <<Component(S_UPDATE, Template("Changes existing rows in a table", <<>>))>>)
    ELSE IF includes(upperSQL, S_DELETE) THEN
        Step(<<Template("removes data ", <<>>)>>,
             <<Component(S_DELETE, Template("Removes rows from a table", <<>>))>>)
    ELSE NoStep

\* The FROM step with its explanation fragment lost.
ExplainFromWithoutFragment(s) ==
    IF FromMatches(s) # {}
    THEN Step(<<>>,
              <<Component(S_FROM,
                          Template("Specifies the source table: ${fromMatch[1]}",
                                   FromCapture(s)))>>)
    ELSE NoStep

\* The FROM step.
ExplainFrom(s) ==
    IF FromMatches(s) # {}
    THEN Step(<<Template("from the \"${fromMatch[1]}\" table ", FromCapture(s))>>,
              <<Component(S_FROM,
                          Template("Specifies the source table: ${fromMatch[1]}",
                                   FromCapture(s)))>>)
    ELSE NoStep

\* One of the steps if (upperSQL.includes(kw)) { ... }.
ExplainClause(upperSQL, kw, fragment, description) ==
    IF includes(upperSQL, kw)
    THEN Step(<<Template(fragment, <<>>)>>,
              <<Component(kw, Template(description, <<>>))>>)
    ELSE NoStep

explainSQL(s) ==
    LET upperSQL == toUpperCase(s)
        steps ==
            << Step(<<Template("This SQL query ", <<>>)>>, <<>>),
               ExplainStatement(s, upperSQL),
               ExplainFrom(s),
               ExplainClause(upperSQL, S_WHERE, "with specific conditions ",
                             "Filters rows based on specified conditions"),
               ExplainClause(upperSQL, S_JOIN, "by combining data from multiple tables ",
                             "Combines rows from two or more tables based on related columns"),
               ExplainClause(upperSQL, S_GROUP_BY, "and groups results by specific columns ",
                             "Groups rows that have the same values in specified columns"),
               ExplainClause(upperSQL, S_ORDER_BY, "and sorts the results ",
                             "Sorts the result set by specified columns"),
               ExplainClause(upperSQL, S_LIMIT, "and limits the number of results returned",
                             "Restricts the number of rows returned") >>
    IN  [ explanation |-> Concat([k \in 1..Len(steps) |-> steps[k].fragments]),
          components  |-> Concat([k \in 1..Len(steps) |-> steps[k].components]) ]

MaxExplainPieces == 3

ExplainPieces ==
    { <<" ">>, <<" ","*">>, <<"t">>, <<"s","e","l","e","c","t">>, S_INSERT, S_UPDATE,
      S_DELETE, <<"F","r","o","m">>, S_WHERE, S_JOIN, S_GROUP_BY,
      <<"o","r","d","e","r"," ","b","y">>, S_LIMIT }

InitExplain ==
    \E s \in Texts(ExplainPieces, MaxExplainPieces) : Fresh(s, "undefined", <<>>)

\* sqlExplainerTool.execute
ExplainTool ==
    /\ "explain" \notin called
    /\ called' = called \cup {"explain"}
    /\ eres' = <<explainSQL(sql)>>
    /\ UNCHANGED <<sql, dialect, tableType, vres, fres, sres, ores, verdict, score, agentVars>>

NextExplain == ExplainTool

SpecExplain == InitExplain /\ [][NextExplain]_vars

-----------------------------------------------------------------------------
(* optimizeSQL *)

N_SelectStar == "Replace SELECT * with specific column names to reduce data transfer"
N_Where == "Ensure columns used in WHERE clause are indexed"
N_Like == "LIKE patterns starting with % cannot use indexes efficiently"
N_NotIn == "Replaced NOT IN with NOT EXISTS for better performance"
N_Or == "Consider breaking OR conditions into UNION queries for better index usage"
N_CommaJoin == "Use explicit JOIN syntax instead of comma-separated tables for clarity"
N_Explain == "Use EXPLAIN or EXPLAIN ANALYZE to understand query execution plan"
P_Multiple == "This query has multiple optimization opportunities"
P_Optimized == "This query looks relatively optimized"

\* The . of a regular expression matches every character of s[from..to]:
\* none of them ends a line.
NoLineBreak(s, from, to) == \A k \in from..to : s[k] # "\n"

\* sql.match(/%.*LIKE/i)
MatchesLeadingWildcard(s) ==
    \E i \in 1..Len(s) : \E j \in (i + 1)..Len(s) :
        /\ s[i] = "%"
        /\ MatchAtCI(s, j, S_LIKE)
        /\ NoLineBreak(s, i + 1, j - 1)

\* upper.match(/WHERE.*OR/)
MatchesWhereOr(upper) ==
    \E i \in 1..Len(upper) : \E j \in (i + Len(S_WHERE))..Len(upper) :
        /\ MatchAt(upper, i, S_WHERE)
        /\ MatchAt(upper, j, S_OR)
        /\ NoLineBreak(upper, i + Len(S_WHERE), j - 1)

\* sql.match(/FROM\s+\w+\s*,\s*\w+/i)
MatchesCommaJoin(s) ==
    \E i \in 1..Len(s) :
        LET afterFrom  == i + Len(S_FROM)
            firstWord  == SkipSpaces(s, afterFrom)
            afterWord  == SkipWord(s, firstWord)
            comma      == SkipSpaces(s, afterWord)
            secondWord == SkipSpaces(s, comma + 1)
        IN  /\ MatchAtCI(s, i, S_FROM)
            /\ firstWord > afterFrom
            /\ afterWord > firstWord
            /\ comma <= Len(s)
            /\ s[comma] = ","
            /\ SkipWord(s, secondWord) > secondWord

\* sql.replace(/NOT IN/gi, "NOT EXISTS"), from position i on.
RECURSIVE ReplaceNotInFrom(_, _)
ReplaceNotInFrom(s, i) ==
    IF i > Len(s) THEN <<>>
    ELSE IF MatchAtCI(s, i, S_NOT_IN)
         THEN S_NOT_EXISTS \o ReplaceNotInFrom(s, i + Len(S_NOT_IN))
    ELSE <<s[i]>> \o ReplaceNotInFrom(s, i + 1)

\* The summary with the threshold one too low.
PerformanceOffByOne(improvements) ==
    IF Len(improvements) > 1 THEN P_Multiple ELSE P_Optimized

\* The performance summary.
Performance(improvements) ==
    IF Len(improvements) > 2 THEN P_Multiple ELSE P_Optimized

optimizeSQL(s) ==
    LET upper  == toUpperCase(s)
        n1 == IF includes(upper, S_SELECT_STAR) THEN <<N_SelectStar>> ELSE <<>>
        n2 == IF includes(upper, S_WHERE) THEN <<N_Where>> ELSE <<>>
        n3 == IF MatchesLeadingWildcard(s) THEN <<N_Like>> ELSE <<>>
        n4 == IF includes(upper, S_NOT_IN) THEN <<N_NotIn>> ELSE <<>>
        n5 == IF MatchesWhereOr(upper) THEN <<N_Or>> ELSE <<>>
        n6 == IF MatchesCommaJoin(s) THEN <<N_CommaJoin>> ELSE <<>>
        improvements == n1 \o n2 \o n3 \o n4 \o n5 \o n6 \o <<N_Explain>>
    IN  [ optimized    |-> IF includes(upper, S_NOT_IN) THEN ReplaceNotInFrom(s, 1) ELSE s,
          improvements |-> improvements,
          performance  |-> Performance(improvements) ]

MaxOptimizePieces == 3

OptimizePieces ==
    { <<" ">>, <<"a">>, <<"\n">>, S_NOT_IN, <<"n","o","t"," ","i","n">>,
      <<"N","O","T"," ",DotlessI,"N">>, <<"N","O","T"," ">>, <<"%">>, S_LIKE,
      <<"w","h","e","r","e">>, S_OR, S_SELECT_STAR, <<"F","R","O","M"," ","t",",","u">> }

InitOptimize ==
    \E s \in Texts(OptimizePieces, MaxOptimizePieces) : Fresh(s, "undefined", <<>>)

\* sqlOptimizerTool.execute
OptimizeTool ==
    /\ "optimize" \notin called
    /\ called' = called \cup {"optimize"}
    /\ ores' = <<optimizeSQL(sql)>>
    /\ UNCHANGED <<sql, dialect, tableType, vres, fres, sres, eres, verdict, score, agentVars>>

NextOptimize == OptimizeTool

SpecOptimize == InitOptimize /\ [][NextOptimize]_vars

-----------------------------------------------------------------------------
(* The scorers: generateScore *)
(*                                                                         *)
(* A judge verdict is a record of optional fields: a field holds <<>> when  *)
(* the judge left it out and <<v>> when it sent the value v.  Numbers of   *)
(* the verdict are in tenths and scores in hundredths, so that the product *)
(* of a score and a confidence is exact.                                   *)

Scorers == {"correctness", "intentMatch", "readability"}

\* r.field is undefined.
Missing(r, field) == field \notin DOMAIN r \/ r[field] = <<>>

\* r.field, when it is there.
Field(r, field) == r[field][1]

\* (results as any)?.analyzeStepResult || {}
AnalyzeStepResult(results) ==
    IF Missing(results, "analyzeStepResult") THEN <<>> ELSE results.analyzeStepResult

\* !r.field, for a field that is a boolean when it is there.
Not(r, field) == Missing(r, field) \/ ~Field(r, field)

Min(a, b) == IF a < b THEN a ELSE b

Max(a, b) == IF a > b THEN a ELSE b

\* sqlCorrectnessScorer's generateScore with r.hasBestPractices === false for
\* !r.hasBestPractices: a missing field passes.
CorrectnessScoreMissingPasses(results) ==
    LET r  == AnalyzeStepResult(results)
        s0 == 10
        s1 == IF Not(r, "isSyntacticallyCorrect") THEN s0 - 5 ELSE s0
        s2 == IF ~Missing(r, "hasBestPractices") /\ ~Field(r, "hasBestPractices")
              THEN s1 - 2 ELSE s1
        s3 == IF ~Missing(r, "securityIssues") /\ Len(Field(r, "securityIssues")) > 0
              THEN s2 - 3 ELSE s2
        confidence == IF Missing(r, "confidence") THEN 10 ELSE Field(r, "confidence")
    IN  Max(0, Min(100, s3 * confidence))

\* sqlCorrectnessScorer's generateScore, in hundredths.
CorrectnessScore(results) ==
    LET r  == AnalyzeStepResult(results)
        s0 == 10
        s1 == IF Not(r, "isSyntacticallyCorrect") THEN s0 - 5 ELSE s0
        s2 == IF Not(r, "hasBestPractices") THEN s1 - 2 ELSE s1
        s3 == IF ~Missing(r, "securityIssues") /\ Len(Field(r, "securityIssues")) > 0
              THEN s2 - 3 ELSE s2
        confidence == IF Missing(r, "confidence") THEN 10 ELSE Field(r, "confidence")
    IN  Max(0, Min(100, s3 * confidence))

\* r.matchesIntent ? (r.confidence || 0.9) : 0.2
IntentMatchScoreFalsyConfidence(results) ==
    LET r == AnalyzeStepResult(results)
    IN  IF ~Not(r, "matchesIntent")
        THEN (IF Missing(r, "confidence") \/ Field(r, "confidence") = 0
              THEN 90 ELSE 10 * Field(r, "confidence"))
        ELSE 20

\* intentMatchScorer's generateScore, in hundredths.
IntentMatchScore(results) ==
    LET r == AnalyzeStepResult(results)
    IN  IF ~Not(r, "matchesIntent")
        THEN (IF Missing(r, "confidence") THEN 90 ELSE 10 * Field(r, "confidence"))
        ELSE 20

\* readabilityScorer's generateScore, in hundredths.
ReadabilityScore(results) ==
    LET r == AnalyzeStepResult(results)
    IN  IF Missing(r, "readabilityScore") THEN 50 ELSE 10 * Field(r, "readabilityScore")

generateScore(scorer, results) ==
    IF scorer = "correctness" THEN CorrectnessScore(results)
    ELSE IF scorer = "intentMatch" THEN IntentMatchScore(results)
    ELSE ReadabilityScore(results)

\* The numbers a judge may send, in tenths: the schema asks for [0, 1] and
\* nothing holds the judge to it.
MaxJudgeNumber == 15

JudgeNumbers == {-5, 0, 5, 10, MaxJudgeNumber}

\* A field the judge may leave out.
Optional(values) == {<<>>} \cup {<<v>> : v \in values}

\* The verdicts a judge may send to a scorer, fields missing or not.
Verdicts(scorer) ==
    IF scorer = "correctness" THEN
        [ isSyntacticallyCorrect : Optional(BOOLEAN),
          hasBestPractices : Optional(BOOLEAN),
          securityIssues : Optional({<<>>, <<"missing WHERE in DELETE">>}),
          confidence : Optional(JudgeNumbers) ]
    ELSE IF scorer = "intentMatch" THEN
        [ matchesIntent : Optional(BOOLEAN), confidence : Optional(JudgeNumbers) ]
    ELSE
        [ readabilityScore : Optional(JudgeNumbers) ]

InitScore ==
    /\ sql = <<>>
    /\ dialect = "undefined"
    /\ tableType = <<>>
    /\ called = {}
    /\ vres = NoValidation
    /\ fres = <<>>
    /\ sres = <<>>
    /\ eres = <<>>
    /\ ores = <<>>
    /\ verdict = [s \in Scorers |-> <<>>]
    /\ score = [s \in Scorers |-> <<>>]
    /\ run = <<>>
    /\ stage = <<>>
    /\ pre = <<>>
    /\ reason = <<>>
    /\ step = <<>>

\* The analyze step of a scorer ends: the judge's verdict is its result.
Analyze(s) ==
    /\ verdict[s] = <<>>
    /\ \E v \in Verdicts(s) : verdict' = [verdict EXCEPT ![s] = <<v>>]
    /\ UNCHANGED <<sql, dialect, tableType, called, vres, fres, sres, eres, ores, score, agentVars>>

\* The generateScore step of a scorer, on the result of its analyze step.
GenerateScore(s) ==
    /\ verdict[s] # <<>>
    /\ score[s] = <<>>
    /\ score' = [score EXCEPT
                    ![s] = <<generateScore(s, [analyzeStepResult |-> verdict[s][1]])>>]
    /\ UNCHANGED <<sql, dialect, tableType, called, vres, fres, sres, eres, ores, verdict, agentVars>>

NextScore ==
    \/ \E s \in Scorers : Analyze(s)
    \/ \E s \in Scorers : GenerateScore(s)

SpecScore == InitScore /\ [][NextScore]_vars

-----------------------------------------------------------------------------
(* The sql text of an answer *)

\* The character U+0060; a code fence is three of them.
Backtick == "U+0060"

Fence == <<Backtick, Backtick, Backtick>>

S_FenceSql == Fence \o <<"s","q","l","\n">>

S_FenceBare == Fence \o <<"\n">>

S_FenceEnd == <<"\n">> \o Fence

\* The first position, from position from on, at which pat occurs in s; 0 for
\* none.
IndexFrom(s, pat, from) ==
    LET at == {i \in from..(Len(s) - Len(pat) + 1) : MatchAt(s, i, pat)}
    IN  IF at = {} THEN 0 ELSE CHOOSE i \in at : \A j \in at : i <= j

\* text.match of an opening, a lazy group of any characters, a line break and
\* a fence: <<>> for null, else <<group 1>>.
\* The leftmost opening that has a closing behind it is the leftmost
\* opening; the lazy group ends at the first closing behind it.
FenceMatch(text, open) ==
    LET i  == IndexFrom(text, open, 1)
        a  == i + Len(open)
        j  == IF i = 0 THEN 0 ELSE IndexFrom(text, S_FenceEnd, a)
    IN  IF i = 0 \/ j = 0 THEN <<>> ELSE <<SubSeq(text, a, j - 1)>>

\* The match of the fence tagged sql, or else the match of the bare fence.
sqlMatch(text) ==
    IF FenceMatch(text, S_FenceSql) # <<>>
    THEN FenceMatch(text, S_FenceSql)
    ELSE FenceMatch(text, S_FenceBare)

\* sqlMatch ? sqlMatch[1] : text
ExtractSql(text) == IF sqlMatch(text) # <<>> THEN sqlMatch(text)[1] ELSE text

-----------------------------------------------------------------------------
(* The scorer pipelines *)

\* x || "", for an optional text x.
OrEmpty(x) == IF x = <<>> THEN <<>> ELSE x[1]

\* The preprocess step of a scorer, on the run r.
preprocess(scorer, r) ==
    LET assistantText == OrEmpty(r.output)
        userText      == OrEmpty(r.input)
    IN  IF scorer = "intentMatch"
        THEN [userText |-> userText, sql |-> ExtractSql(assistantText)]
        ELSE [sql |-> ExtractSql(assistantText)]

\* r.field ?? default
OrElse(r, field, default) == IF Missing(r, field) THEN default ELSE Field(r, field)

\* The generateReason step of a scorer: the template and what it is filled
\* with.
generateReason(scorer, results, sc) ==
    LET r == AnalyzeStepResult(results)
    IN  IF scorer = "correctness" THEN
            [ label |-> "SQL Correctness",
              syntax |-> OrElse(r, "isSyntacticallyCorrect", FALSE),
              bestPractices |-> OrElse(r, "hasBestPractices", FALSE),
              securityIssues |-> IF Missing(r, "securityIssues") THEN 0
                                 ELSE Len(Field(r, "securityIssues")),
              score |-> sc,
              feedback |-> OrElse(r, "feedback", "") ]
        ELSE IF scorer = "intentMatch" THEN
            [ label |-> "Intent Match",
              matches |-> OrElse(r, "matchesIntent", FALSE),
              confidence |-> OrElse(r, "confidence", 0),
              score |-> sc,
              reasoning |-> OrElse(r, "reasoning", "") ]
        ELSE
            [ label |-> "Readability",
              formatted |-> OrElse(r, "isFormatted", FALSE),
              hasComments |-> OrElse(r, "hasComments", FALSE),
              score |-> sc,
              suggestions |-> OrElse(r, "suggestions", <<"none">>) ]

\* The answers that are scored.
AnswerTexts ==
    { <<"x">>,
      S_FenceSql \o <<"x">> \o S_FenceEnd }

Runs == [output : Optional(AnswerTexts), input : Optional({<<"q">>})]

\* The verdicts the judge sends while the three pipelines run together.
JudgeVerdicts(scorer) ==
    IF scorer = "correctness" THEN
        [ isSyntacticallyCorrect : Optional({TRUE}),
          hasBestPractices : {<<TRUE>>},
          securityIssues : Optional({<<"missing WHERE in DELETE">>}),
          confidence : Optional({MaxJudgeNumber}),
          feedback : {<<"ok">>} ]
    ELSE IF scorer = "intentMatch" THEN
        [ matchesIntent : Optional(BOOLEAN),
          confidence : Optional(JudgeNumbers),
          reasoning : {<<"as asked">>} ]
    ELSE
        [ readabilityScore : Optional({5, MaxJudgeNumber}),
          isFormatted : Optional({TRUE}),
          hasComments : {<<FALSE>>},
          suggestions : {<<>>} ]

InitPipeline ==
    /\ sql = <<>>
    /\ dialect = "undefined"
    /\ tableType = <<>>
    /\ called = {}
    /\ vres = NoValidation
    /\ fres = <<>>
    /\ sres = <<>>
    /\ eres = <<>>
    /\ ores = <<>>
    /\ verdict = [s \in Scorers |-> <<>>]
    /\ score = [s \in Scorers |-> <<>>]
    /\ run \in Runs
    /\ stage = [s \in Scorers |-> "start"]
    /\ pre = [s \in Scorers |-> <<>>]
    /\ reason = [s \in Scorers |-> <<>>]
    /\ step = <<>>

\* The results object of the wrong scorer.
ResultsOfCorrectness(s) ==
    IF verdict["correctness"] = <<>> THEN [preprocessStepResult |-> pre[s][1]]
    ELSE [preprocessStepResult |-> pre[s][1],
          analyzeStepResult |-> verdict["correctness"][1]]

\* The results object handed to a scorer's generateScore and generateReason:
\* the results of its own earlier steps.
Results(s) ==
    IF verdict[s] = <<>> THEN [preprocessStepResult |-> pre[s][1]]
    ELSE [preprocessStepResult |-> pre[s][1], analyzeStepResult |-> verdict[s][1]]

\* The preprocess step of scorer s.
Preprocess(s) ==
    /\ stage[s] = "start"
    /\ pre' = [pre EXCEPT ![s] = <<preprocess(s, run)>>]
    /\ stage' = [stage EXCEPT ![s] = "preprocessed"]
    /\ UNCHANGED <<toolVars, verdict, score, run, reason, step>>

\* The analyze step of scorer s: the judge answers with a verdict.
JudgeReturns(s) ==
    /\ stage[s] = "preprocessed"
    /\ \E v \in JudgeVerdicts(s) : verdict' = [verdict EXCEPT ![s] = <<v>>]
    /\ stage' = [stage EXCEPT ![s] = "analyzed"]
    /\ UNCHANGED <<toolVars, score, run, pre, reason, step>>

\* The analyze step of scorer s: the judge call fails or is cancelled, and
\* there is no analyzeStepResult.
JudgeFails(s) ==
    /\ stage[s] = "preprocessed"
    /\ stage' = [stage EXCEPT ![s] = "failed"]
    /\ UNCHANGED <<toolVars, verdict, score, run, pre, reason, step>>

\* The generateScore step of scorer s.  The step takes a results object with
\* or without an analyzeStepResult.
ScoreStep(s) ==
    /\ stage[s] \in {"analyzed", "failed"}
    /\ score' = [score EXCEPT ![s] = <<generateScore(s, Results(s))>>]
    /\ stage' = [stage EXCEPT ![s] = "scored"]
    /\ UNCHANGED <<toolVars, verdict, run, pre, reason, step>>

\* The generateReason step of scorer s.
ReasonStep(s) ==
    /\ stage[s] = "scored"
    /\ reason' = [reason EXCEPT ![s] = <<generateReason(s, Results(s), score[s][1])>>]
    /\ stage' = [stage EXCEPT ![s] = "done"]
    /\ UNCHANGED <<toolVars, verdict, score, run, pre, step>>

NextPipeline ==
    \/ \E s \in Scorers : Preprocess(s)
    \/ \E s \in Scorers : JudgeReturns(s)
    \/ \E s \in Scorers : JudgeFails(s)
    \/ \E s \in Scorers : ScoreStep(s)
    \/ \E s \in Scorers : ReasonStep(s)

SpecPipeline == InitPipeline /\ [][NextPipeline]_vars

-----------------------------------------------------------------------------
(* The preprocess steps on the answers of an agent *)

MaxAnswerPieces == 3

\* An untagged block, a block tagged sql, a block tagged js, a line of prose.
AnswerPieces ==
    { S_FenceBare \o <<"a">> \o S_FenceEnd \o <<"\n">>,
      S_FenceSql \o <<"b">> \o S_FenceEnd \o <<"\n">>,
      Fence \o <<"j","s","\n","c">> \o S_FenceEnd \o <<"\n">>,
      <<"p","\n">> }

InitExtract ==
    /\ sql = <<>>
    /\ dialect = "undefined"
    /\ tableType = <<>>
    /\ called = {}
    /\ vres = NoValidation
    /\ fres = <<>>
    /\ sres = <<>>
    /\ eres = <<>>
    /\ ores = <<>>
    /\ verdict = [s \in Scorers |-> <<>>]
    /\ score = [s \in Scorers |-> <<>>]
    /\ \E t \in Texts(AnswerPieces, MaxAnswerPieces) :
           run = [output |-> <<t>>, input |-> <<>>]
    /\ stage = [s \in Scorers |-> "start"]
    /\ pre = [s \in Scorers |-> <<>>]
    /\ reason = [s \in Scorers |-> <<>>]
    /\ step = <<>>

NextExtract == \E s \in Scorers : Preprocess(s)

SpecExtract == InitExtract /\ [][NextExtract]_vars

-----------------------------------------------------------------------------
(* The optimizer tool on queries with WHERE, OR and ORDER BY *)

MaxConditionPieces == 3

ConditionPieces ==
    { <<"w","h","e","r","e"," ">>, <<"a"," ">>, <<"o","r"," ">>, S_OR \o <<" ">>,
      S_ORDER_BY \o <<" ">>, <<"\n">>, <<"f","o","r"," ">> }

InitCondition ==
    \E s \in Texts(ConditionPieces, MaxConditionPieces) : Fresh(s, "undefined", <<>>)

SpecCondition == InitCondition /\ [][NextOptimize]_vars

-----------------------------------------------------------------------------
(* The validator, the explainer and the optimizer on one query *)

MaxStarPieces == 3

StarPieces ==
    { <<"s","e","l","e","c","t">>, S_SELECT, <<" ">>, <<"\t">>, <<"\n">>,
      <<"*">>, <<"x">> }

InitStar ==
    \E s \in Texts(StarPieces, MaxStarPieces) : Fresh(s, "undefined", <<>>)

NextStar == ValidateTool \/ ExplainTool \/ OptimizeTool

SpecStar == InitStar /\ [][NextStar]_vars

-----------------------------------------------------------------------------
(* The generate-sql step of the workflow *)

E_NoInput == "Input data not found"

E_NoAgent == "SQL agent not found"

\* The rejection of agent.stream or of the text stream.
E_Stream == "the stream failed"

\* The chunks of one text stream, at most.
MaxChunks == 3

Chunks ==
    { S_FenceSql, S_FenceBare, S_FenceEnd, <<"x">>, <<"p"," ">> }

\* inputData is missing, or holds a message and maybe a dialect and a context.
StepInputs ==
    Optional([ message : {<<"q">>},
               dialect : Optional({<<"m","y","s","q","l">>}),
               context : Optional({<<"c">>}) ])

\* The user message handed to the agent.
Prompt(inputData) ==
    <<inputData.message>>
    \o (IF inputData.dialect # <<>>
        THEN <<Template("Please use syntax", toUpperCase(inputData.dialect[1]))>>
        ELSE <<>>)
    \o (IF inputData.context # <<>>
        THEN <<Template("Additional context", inputData.context[1])>>
        ELSE <<>>)

\* chunk + responseText
PrependChunk(responseText, chunk) == chunk \o responseText

\* responseText += chunk
AppendChunk(responseText, chunk) == responseText \o chunk

InitStep ==
    /\ sql = <<>>
    /\ dialect = "undefined"
    /\ tableType = <<>>
    /\ called = {}
    /\ vres = NoValidation
    /\ fres = <<>>
    /\ sres = <<>>
    /\ eres = <<>>
    /\ ores = <<>>
    /\ verdict = <<>>
    /\ score = <<>>
    /\ run = <<>>
    /\ stage = <<>>
    /\ pre = <<>>
    /\ reason = <<>>
    /\ \E in \in StepInputs, hasAgent \in BOOLEAN :
        step = [ pc |-> "input", inputData |-> in, hasAgent |-> hasAgent,
                 prompt |-> <<>>, opened |-> FALSE, exhausted |-> FALSE,
                 stdout |-> <<>>, responseText |-> <<>>,
                 error |-> "", output |-> <<>> ]

\* if (!inputData) throw new Error("Input data not found")
CheckInput ==
    /\ step.pc = "input"
    /\ step' = IF step.inputData = <<>>
               THEN [step EXCEPT !.pc = "failed", !.error = E_NoInput]
               ELSE [step EXCEPT !.pc = "agent"]
    /\ UNCHANGED <<toolVars, verdict, score, run, stage, pre, reason>>

\* const agent = mastra?.getAgent("sqlAgent"); if (!agent) throw ...
GetAgent ==
    /\ step.pc = "agent"
    /\ step' = IF ~step.hasAgent
               THEN [step EXCEPT !.pc = "failed", !.error = E_NoAgent]
               ELSE [step EXCEPT !.pc = "prompt"]
    /\ UNCHANGED <<toolVars, verdict, score, run, stage, pre, reason>>

\* The prompt is built and agent.stream is awaited: the stream opens.
OpenStream ==
    /\ step.pc = "prompt"
    /\ step' = [step EXCEPT !.pc = "streaming", !.opened = TRUE,
                            !.prompt = Prompt(step.inputData[1])]
    /\ UNCHANGED <<toolVars, verdict, score, run, stage, pre, reason>>

\* The prompt is built and agent.stream is awaited: the call is rejected.
StreamRejected ==
    /\ step.pc = "prompt"
    /\ step' = [step EXCEPT !.pc = "failed", !.error = E_Stream,
                            !.prompt = Prompt(step.inputData[1])]
    /\ UNCHANGED <<toolVars, verdict, score, run, stage, pre, reason>>

\* One turn of the for await loop: a chunk arrives, is written to stdout and
\* is added to responseText.
ReadChunk ==
    /\ step.pc = "streaming"
    /\ ~step.exhausted
    /\ Len(step.stdout) < MaxChunks
    /\ \E chunk \in Chunks :
        step' = [step EXCEPT !.stdout = Append(step.stdout, chunk),
                             !.responseText = AppendChunk(step.responseText, chunk)]
    /\ UNCHANGED <<toolVars, verdict, score, run, stage, pre, reason>>

\* The text stream has no more chunks.
StreamEnds ==
    /\ step.pc = "streaming"
    /\ ~step.exhausted
    /\ step' = [step EXCEPT !.exhausted = TRUE]
    /\ UNCHANGED <<toolVars, verdict, score, run, stage, pre, reason>>

\* The text stream throws in the for await loop.
StreamFails ==
    /\ step.pc = "streaming"
    /\ ~step.exhausted
    /\ step' = [step EXCEPT !.pc = "failed", !.error = E_Stream]
    /\ UNCHANGED <<toolVars, verdict, score, run, stage, pre, reason>>

\* The loop is over: the sql is extracted and the step returns.
Return ==
    /\ step.pc = "streaming"
    /\ step.exhausted
    /\ step' = [step EXCEPT
                   !.pc = "done",
                   !.output = <<[ sql |-> ExtractSql(step.responseText),
                                  explanation |-> step.responseText,
                                  response |-> step.responseText ]>>]
    /\ UNCHANGED <<toolVars, verdict, score, run, stage, pre, reason>>

NextStep ==
    \/ CheckInput
    \/ GetAgent
    \/ OpenStream
    \/ StreamRejected
    \/ ReadChunk
    \/ StreamEnds
    \/ StreamFails
    \/ Return

SpecStep == InitStep /\ [][NextStep]_vars

-----------------------------------------------------------------------------
(* Properties of the validator *)

\* The text s contains the word w, letter case ignored.
ContainsWord(s, w) ==
    \E i \in 1..(Len(s) - Len(w) + 1) :
        \A k \in 1..Len(w) : ToUpperMap[s[i + k - 1]] = ToUpperMap[w[k]]

C1_Keywords ==
    { S_SELECT, S_INSERT, S_UPDATE, S_DELETE, S_CREATE, S_DROP, S_ALTER,
      S_FROM, S_WHERE, S_JOIN }

\* C1: validateSQL(sql, dialect).isValid is false if and only if the trimmed,
\* upper-cased text contains none of SELECT, INSERT, UPDATE, DELETE, CREATE,
\* DROP, ALTER, FROM, WHERE, JOIN; and whenever isValid is false (the empty
\* text included) the warnings are not empty and hold the 'Query does not
\* contain standard SQL keywords' warning.
C1_InvalidIffNoKeyword ==
    "validate" \in called =>
        /\ ~vres.isValid <=>
               \A w \in C1_Keywords : ~includes(toUpperCase(trim(sql)), w)
        /\ ~vres.isValid =>
               /\ vres.warnings # <<>>
               /\ W_NoKeywords \in Range(vres.warnings)

C1_Witness ==
    /\ "validate" \in called
    /\ ~vres.isValid
    /\ includes(sql, <<"x">>)

\* C2: validateSQL appends the 'UPDATE/DELETE without WHERE clause' warning if
\* and only if the text contains UPDATE or DELETE and does not contain WHERE,
\* letter case ignored.
C2_NoWhereWarning ==
    "validate" \in called =>
        ( W_NoWhere \in Range(vres.warnings) <=>
            /\ ContainsWord(sql, S_UPDATE) \/ ContainsWord(sql, S_DELETE)
            /\ ~ContainsWord(sql, S_WHERE) )

C2_Witness ==
    /\ "validate" \in called
    /\ W_NoWhere \in Range(vres.warnings)
    /\ includes(sql, <<"d","e","l","e","t","e">>)

C3_JoinTypes == {S_INNER, S_LEFT, S_RIGHT, S_FULL, S_CROSS}

\* Some JOIN of s follows a join-type keyword, with white space and nothing
\* else between them: at least one white-space character if strict, any number
\* (none included) otherwise.
C3_TypedJoin(s, strict) ==
    \E t \in C3_JoinTypes : \E i \in 1..Len(s) :
        /\ MatchAt(s, i, t)
        /\ strict => SkipSpaces(s, i + Len(t)) > i + Len(t)
        /\ MatchAt(s, SkipSpaces(s, i + Len(t)), S_JOIN)

\* C3: validateSQL appends the 'Consider using explicit JOIN type' suggestion
\* if and only if the text contains JOIN and no JOIN is immediately preceded,
\* white space apart, by INNER, LEFT, RIGHT, FULL or CROSS; a join-type word
\* elsewhere in the text does not suppress the suggestion.  Stated for both
\* readings of 'separated only by whitespace': a text without JOIN or with a
\* JOIN after a keyword and white space gets no suggestion, a text with JOIN
\* and no keyword directly before any JOIN gets it.
C3_ExplicitJoinSuggestion ==
    "validate" \in called =>
        LET upper     == toUpperCase(sql)
            suggested == G_ExplicitJoin \in Range(vres.suggestions)
        IN  /\ ~includes(upper, S_JOIN) => ~suggested
            /\ includes(upper, S_JOIN) /\ C3_TypedJoin(upper, TRUE) => ~suggested
            /\ includes(upper, S_JOIN) /\ ~C3_TypedJoin(upper, FALSE) => suggested

-----------------------------------------------------------------------------
(* Properties of the formatter *)

\* C4: the keyword formatter is idempotent: formatSQL(formatSQL(s)) equals
\* formatSQL(s) for every text s, the texts whose compound keywords the
\* earlier JOIN and FROM replacements break up and the texts with a keyword
\* next to punctuation included.
C4_FormatIdempotent == Len(fres) = 2 => fres[2] = fres[1]

C4_Witness ==
    /\ Len(fres) = 2
    /\ ContainsWord(sql, S_LEFT_JOIN)
    /\ fres[1] = S_LEFT \o <<"\n">> \o S_JOIN

-----------------------------------------------------------------------------
(* Properties of the schema lookup *)

\* C5: for every tableType whose lower-cased form is not exactly users,
\* products or orders, getSchemaInfo returns the generic record (commonColumns
\* id, name, created_at, updated_at; the one 'Depends on your specific
\* database schema' relationship; the one example 'SELECT * FROM <tableType>
\* LIMIT 10' around the text as given); and for the three recognised keys
\* the result does not depend on the letter case of the input.
C5_SchemaLookup ==
    "schema" \in called =>
        LET lower == toLowerCase(tableType)
        IN  /\ lower \notin {K_users, K_products, K_orders} =>
                  sres[1] =
                      [ commonColumns |-> <<"id", "name", "created_at", "updated_at">>,
                        relationships |-> <<"Depends on your specific database schema">>,
                        examples |->
                            << Template("SELECT * FROM ${tableType} LIMIT 10", tableType) >> ]
            /\ lower \in {K_users, K_products, K_orders} =>
                  sres[1] = getSchemaInfo(lower)

-----------------------------------------------------------------------------
(* Properties of the explainer *)

C6_StatementTags == <<S_SELECT, S_INSERT, S_UPDATE, S_DELETE>>

\* The place of a tag in the fixed order; 0 for a tag that is not in it.
C6_Rank(tag, order) ==
    IF \E k \in 1..Len(order) : tag \in order[k]
    THEN CHOOSE k \in 1..Len(order) : tag \in order[k]
    ELSE 0

\* The tags are a subsequence of the fixed order.
C6_InOrder(tags, order) ==
    /\ \A k \in 1..Len(tags) : C6_Rank(tags[k], order) > 0
    /\ \A k \in 1..(Len(tags) - 1) :
           C6_Rank(tags[k], order) < C6_Rank(tags[k + 1], order)

\* At most one statement tag, the first of SELECT, INSERT, UPDATE, DELETE whose
\* keyword occurs in the text.
C6_OneStatement(tags, s) ==
    \A k \in 1..Len(C6_StatementTags) :
        C6_StatementTags[k] \in Range(tags) <=>
            /\ ContainsWord(s, C6_StatementTags[k])
            /\ \A j \in 1..(k - 1) : ~ContainsWord(s, C6_StatementTags[j])

C6_Tags == [k \in 1..Len(eres[1].components) |-> eres[1].components[k].part]

\* C6 as stated: the part tags of explainSQL(sql).components are a subsequence
\* of [one of SELECT/INSERT/UPDATE/DELETE, FROM, WHERE, JOIN, GROUP BY,
\* ORDER BY, LIMIT] wherever the keywords stand in the text, with at most one
\* of the tags SELECT, INSERT, UPDATE, DELETE: the first whose keyword occurs.
C6_TagOrderAsStated ==
    "explain" \in called =>
        /\ C6_InOrder(C6_Tags,
                      << {S_SELECT, S_INSERT, S_UPDATE, S_DELETE}, {S_FROM}, {S_WHERE},
                         {S_JOIN}, {S_GROUP_BY}, {S_ORDER_BY}, {S_LIMIT} >>)
        /\ C6_OneStatement(C6_Tags, sql)

\* C6 as amended: the same with the tag 'SELECT *' in the fixed order, right
\* after the statement tag.
C6_TagOrder ==
    "explain" \in called =>
        /\ C6_InOrder(C6_Tags,
                      << {S_SELECT, S_INSERT, S_UPDATE, S_DELETE}, {S_SELECT_STAR},
                         {S_FROM}, {S_WHERE}, {S_JOIN}, {S_GROUP_BY}, {S_ORDER_BY},
                         {S_LIMIT} >>)
        /\ C6_OneStatement(C6_Tags, sql)

C6_Witness ==
    /\ "explain" \in called
    /\ C6_Tags = <<S_SELECT, S_SELECT_STAR, S_WHERE>>
    /\ ContainsWord(sql, S_WHERE \o S_SELECT)

\* SELECT, white space, * stands in the text, letter case ignored.
C7_SelectStar(s) ==
    \E i \in 1..Len(s) : \E j \in (i + Len(S_SELECT) + 1)..Len(s) :
        /\ ContainsWord(SubSeq(s, i, i + Len(S_SELECT) - 1), S_SELECT)
        /\ \A k \in (i + Len(S_SELECT))..(j - 1) : IsSpace(s[k])
        /\ s[j] = "*"

\* C7 as stated: the number of components equals the number of fragments
\* appended to the explanation after its prefix 'This SQL query '.
C7_CountsAsStated ==
    "explain" \in called =>
        Len(eres[1].components) = Len(eres[1].explanation) - 1

\* C7 as amended: each recognised clause keyword appends one component and
\* one fragment, and a text with SELECT, white space, * gets one more
\* component, 'SELECT *', without a fragment.
C7_Counts ==
    "explain" \in called =>
        Len(eres[1].components) =
            Len(eres[1].explanation) - 1 + (IF C7_SelectStar(sql) THEN 1 ELSE 0)

C7_Witness ==
    /\ "explain" \in called
    /\ C7_SelectStar(sql)
    /\ Len(eres[1].components) = 3
    /\ Len(eres[1].explanation) = 3

-----------------------------------------------------------------------------
(* Properties of the optimizer *)

\* NOT IN stands in s at position i: letter case ignored as toUpperCase()
\* ignores it (folded) or as the flag i of a regular expression does.
C8_OccursAt(s, i, folded) ==
    /\ i + Len(S_NOT_IN) - 1 <= Len(s)
    /\ \A k \in 1..Len(S_NOT_IN) :
           IF folded THEN ToUpperMap[s[i + k - 1]] = S_NOT_IN[k]
           ELSE RegexCanonMap[s[i + k - 1]] = S_NOT_IN[k]

C8_Occurs(s, folded) == \E i \in 1..Len(s) : C8_OccursAt(s, i, folded)

\* s with every occurrence of NOT IN, leftmost first, replaced by NOT EXISTS.
RECURSIVE C8_Replaced(_, _)
C8_Replaced(s, folded) ==
    IF ~C8_Occurs(s, folded) THEN s
    ELSE LET i == CHOOSE m \in 1..Len(s) :
                      /\ C8_OccursAt(s, m, folded)
                      /\ \A n \in 1..(m - 1) : ~C8_OccursAt(s, n, folded)
         IN  SubSeq(s, 1, i - 1) \o S_NOT_EXISTS
                 \o C8_Replaced(SubSeq(s, i + Len(S_NOT_IN), Len(s)), folded)

C8_Under(folded) ==
    IF ~C8_Occurs(sql, folded)
    THEN /\ ores[1].optimized = sql
         /\ N_NotIn \notin Range(ores[1].improvements)
    ELSE /\ ores[1].optimized = C8_Replaced(sql, folded)
         /\ ~C8_Occurs(ores[1].optimized, folded)
         /\ N_NotIn \in Range(ores[1].improvements)

\* C8: optimizeSQL(sql).optimized equals sql when sql holds no occurrence of
\* 'NOT IN', letter case ignored; otherwise it equals sql with every such
\* occurrence replaced by 'NOT EXISTS', no occurrence is left in it, and the
\* 'Replaced NOT IN with NOT EXISTS' note is in improvements exactly then.
\* The claim is taken to hold if it holds for either way of ignoring case.
C8_NotInRewrite ==
    "optimize" \in called => C8_Under(TRUE) \/ C8_Under(FALSE)

\* C9: optimizeSQL(sql).improvements is never empty and ends with the 'Use
\* EXPLAIN or EXPLAIN ANALYZE' note, and performance is the 'multiple
\* optimization opportunities' message if and only if improvements has more
\* than 2 entries, otherwise the 'relatively optimized' message.
C9_TrailingNoteAndSummary ==
    "optimize" \in called =>
        LET notes == ores[1].improvements
        IN  /\ notes # <<>>
            /\ notes[Len(notes)] = N_Explain
            /\ \A k \in 1..(Len(notes) - 1) : notes[k] # N_Explain
            /\ ores[1].performance \in {P_Multiple, P_Optimized}
            /\ ores[1].performance = P_Multiple <=> Len(notes) > 2

C9_Witness ==
    /\ "optimize" \in called
    /\ Len(ores[1].improvements) = 2
    /\ ores[1].performance = P_Optimized
    /\ N_NotIn \in Range(ores[1].improvements)

-----------------------------------------------------------------------------
(* Properties of the scorers *)

\* C10: for each of the three scorers and for every judge verdict, those
\* whose numbers are missing or outside [0, 1] included, the score that
\* generateScore produces lies in [0, 1].
C10_ScoreInUnitInterval ==
    \A s \in Scorers : score[s] # <<>> => score[s][1] \in 0..100

-----------------------------------------------------------------------------
(* Properties of the scorer pipelines *)

\* Scorer s has gone through its generateScore step.
Scored(s) == stage[s] \in {"scored", "done"}

\* C11: the intentMatch score of a partial verdict.  With matchesIntent true
\* the score is the confidence when the verdict carries one (a confidence of
\* 0 included) and 0.9 when it carries none; with matchesIntent false or
\* missing it is 0.2 whatever the confidence; with no analyze result at all
\* it is 0.2.
C11_IntentDefaults ==
    Scored("intentMatch") =>
        LET sc == score["intentMatch"][1]
        IN  IF verdict["intentMatch"] = <<>> THEN sc = 20
            ELSE LET v == verdict["intentMatch"][1]
                 IN  IF v.matchesIntent = <<TRUE>>
                     THEN (IF v.confidence = <<>> THEN sc = 90
                           ELSE sc = 10 * v.confidence[1])
                     ELSE sc = 20

\* A verdict that matches the intent with a confidence of 0 has scored 0.
C11_Witness ==
    /\ Scored("intentMatch")
    /\ verdict["intentMatch"] # <<>>
    /\ verdict["intentMatch"][1].matchesIntent = <<TRUE>>
    /\ verdict["intentMatch"][1].confidence = <<0>>
    /\ score["intentMatch"] = <<0>>

\* The intentMatch score stage has run on no analyze result and answered 0.2.
C11_WitnessAbsent ==
    /\ Scored("intentMatch")
    /\ verdict["intentMatch"] = <<>>
    /\ score["intentMatch"] = <<20>>

-----------------------------------------------------------------------------
(* Properties of the sql extraction *)

\* The positions of the fences of text: three backticks at the start of a
\* line.
C12_Fences(text) ==
    {i \in 1..(Len(text) - 2) :
        MatchAt(text, i, Fence) /\ (i = 1 \/ text[i - 1] = "\n")}

\* The fenced blocks of text, as pairs of an opening and the closing fence
\* behind it: the fences pair up in the order they come.
C12_Blocks(text) ==
    LET fs == C12_Fences(text)
        rank(i) == Cardinality({j \in fs : j <= i})
    IN  {oc \in fs \X fs :
            /\ rank(oc[1]) % 2 = 1
            /\ rank(oc[2]) = rank(oc[1]) + 1}

\* The tag of a block: what follows its opening fence on the same line.
C12_Tag(text, oc) ==
    SubSeq(text, oc[1] + 3, IndexFrom(text, <<"\n">>, oc[1] + 3) - 1)

\* The content of a block: the lines between its two fences.
C12_Content(text, oc) ==
    LET first == IndexFrom(text, <<"\n">>, oc[1] + 3) + 1
    IN  IF first > oc[2] - 2 THEN <<>> ELSE SubSeq(text, first, oc[2] - 2)

\* C12: the sql a preprocess step extracts is the content of the first block
\* tagged sql when the answer has one (an untagged block before it or not);
\* otherwise the content of one of the fenced blocks when the answer has a
\* fenced block, whatever its tag; otherwise the answer itself.
C12_Extraction ==
    \A s \in Scorers :
        stage[s] # "start" =>
            LET text   == run.output[1]
                blocks == C12_Blocks(text)
                tagged == {oc \in blocks : C12_Tag(text, oc) = <<"s","q","l">>}
                got    == pre[s][1].sql
            IN  IF tagged # {}
                THEN \E oc \in tagged :
                        /\ \A other \in tagged : oc[1] <= other[1]
                        /\ got = C12_Content(text, oc)
                ELSE IF blocks # {}
                THEN \E oc \in blocks : got = C12_Content(text, oc)
                ELSE got = text

\* The answer is one block tagged js, and the extracted sql is the whole
\* answer, fences and all.
C12_TaggedBlockKept ==
    /\ stage["correctness"] # "start"
    /\ run.output[1] = Fence \o <<"j","s","\n","c">> \o S_FenceEnd \o <<"\n">>
    /\ pre["correctness"][1].sql = run.output[1]

\* The extracted sql is the prose between a block tagged js and an untagged
\* block.
C12_ProseTaken ==
    /\ stage["correctness"] # "start"
    /\ Cardinality(C12_Blocks(run.output[1])) = 2
    /\ pre["correctness"][1].sql = <<"p">>

\* An untagged block comes before a block tagged sql, and the extracted sql
\* is the content of the block tagged sql.
C12_SqlBlockPreferred ==
    /\ stage["correctness"] # "start"
    /\ run.output[1] = S_FenceBare \o <<"a">> \o S_FenceEnd \o <<"\n">>
                       \o S_FenceSql \o <<"b">> \o S_FenceEnd \o <<"\n">>
    /\ pre["correctness"][1].sql = <<"b">>

\* C13: a scorer whose judge call failed has no analyze result, and its
\* pipeline never yields a numeric score: the score stage does not answer an
\* absent analyze result with a default score.
C13_NoScoreWithoutVerdict ==
    \A s \in Scorers : verdict[s] = <<>> => score[s] = <<>>

\* The three score stages have run on no analyze result and answered 0.3, 0.2
\* and 0.5, and the reasons carry these scores.
C13_DefaultScores ==
    /\ \A s \in Scorers : stage[s] = "done" /\ verdict[s] = <<>>
    /\ score = [correctness |-> <<30>>, intentMatch |-> <<20>>, readability |-> <<50>>]
    /\ reason["correctness"][1].score = 30

\* What scorer s yields when it runs alone on the run and on the verdict its
\* own judge call gave it.
C14_Alone(s) ==
    LET own == IF verdict[s] = <<>> THEN <<>>
               ELSE [analyzeStepResult |-> verdict[s][1]]
        sc  == generateScore(s, own)
    IN  [pre |-> preprocess(s, run), score |-> sc,
         reason |-> generateReason(s, own, sc)]

\* Every scorer's results are those of the scorer run alone.
C14_OwnResults ==
    \A s \in Scorers :
        /\ stage[s] # "start" => pre[s] = <<C14_Alone(s).pre>>
        /\ Scored(s) => score[s] = <<C14_Alone(s).score>>
        /\ stage[s] = "done" => reason[s] = <<C14_Alone(s).reason>>

\* A step of one scorer, a failed judge call included, leaves the run and
\* everything of the other two scorers as it was.
C14_OthersUntouched ==
    \A s \in Scorers :
        stage'[s] # stage[s] =>
            /\ run' = run
            /\ \A t \in Scorers \ {s} :
                /\ stage'[t] = stage[t]
                /\ pre'[t] = pre[t]
                /\ verdict'[t] = verdict[t]
                /\ score'[t] = score[t]
                /\ reason'[t] = reason[t]

\* C14: the three scorer pipelines share no state.  Under every interleaving
\* of their preprocess, judge-call, score and reason steps each scorer yields
\* what it yields alone, and a failed or cancelled judge call of one scorer
\* leaves the outcomes of the other two unchanged.
C14_Independent == []C14_OwnResults /\ [][C14_OthersUntouched]_vars

\* The judge call of the correctness scorer has failed, and the other two
\* scorers are done with the results of their own verdicts.
C14_Witness ==
    /\ stage["correctness"] = "failed"
    /\ \A s \in {"intentMatch", "readability"} :
        /\ stage[s] = "done"
        /\ verdict[s] # <<>>
        /\ score[s] = <<C14_Alone(s).score>>
    /\ score["intentMatch"] # score["readability"]

-----------------------------------------------------------------------------
(* Properties of the optimizer's OR note *)

\* The word OR stands at position j of the upper-cased text: an OR operator.
C15_OrOperatorAt(upper, j) ==
    /\ MatchAt(upper, j, S_OR)
    /\ WordBoundary(upper, j)
    /\ WordBoundary(upper, j + Len(S_OR))

\* An OR operator follows a WHERE; on the same line when sameLine is TRUE.
C15_OrAfterWhere(upper, sameLine) ==
    \E i \in 1..Len(upper) : \E j \in (i + Len(S_WHERE))..Len(upper) :
        /\ MatchAt(upper, i, S_WHERE)
        /\ C15_OrOperatorAt(upper, j)
        /\ sameLine => NoLineBreak(upper, i + Len(S_WHERE), j - 1)

\* C15: optimizeSQL gives the note on OR conditions only to a query in which
\* an OR operator follows WHERE (a query with WHERE and no OR operator, such
\* as WHERE followed by ORDER BY, does not get it), and it gives the note to
\* every query with an OR operator behind WHERE on the same line.
C15_OrNote ==
    "optimize" \in called =>
        LET upper == toUpperCase(sql)
            noted == N_Or \in Range(ores[1].improvements)
        IN  /\ noted => C15_OrAfterWhere(upper, FALSE)
            /\ C15_OrAfterWhere(upper, TRUE) => noted

\* The query is WHERE followed by ORDER BY, and it has the note.
C15_OrderByNoted ==
    /\ "optimize" \in called
    /\ sql = <<"w","h","e","r","e"," ">> \o S_ORDER_BY \o <<" ">>
    /\ N_Or \in Range(ores[1].improvements)

-----------------------------------------------------------------------------
(* Properties of the correctness score *)

\* The judge's verdict of the correctness scorer.
C16_Verdict == verdict["correctness"][1]

\* The verdict passes a check: the field is there and true.
C16_Passes(field) == C16_Verdict[field] = <<TRUE>>

\* The verdict reports security issues.
C16_HasIssues ==
    C16_Verdict.securityIssues # <<>> /\ C16_Verdict.securityIssues[1] # <<>>

\* 1 - 0.5 - 0.2 - 0.3 as the claim states it, in tenths.
C16_Base ==
    10 - (IF C16_Passes("isSyntacticallyCorrect") THEN 0 ELSE 5)
       - (IF C16_Passes("hasBestPractices") THEN 0 ELSE 2)
       - (IF C16_HasIssues THEN 3 ELSE 0)

\* The confidence, 1 when the verdict has none, in tenths.
C16_Confidence ==
    IF C16_Verdict.confidence = <<>> THEN 10 ELSE C16_Verdict.confidence[1]

\* The score is the clamped product; a verdict with every field missing
\* scores 0.3; a verdict failing the three checks scores 0.
C16_Formula ==
    LET sc      == score["correctness"][1]
        product == C16_Base * C16_Confidence
    IN  /\ sc = (IF product < 0 THEN 0 ELSE IF product > 100 THEN 100 ELSE product)
        /\ (\A f \in DOMAIN C16_Verdict : C16_Verdict[f] = <<>>) => sc = 30
        /\ C16_Base = 0 => sc = 0

\* C16 as stated: the correctness score is the clamped product of the
\* deductions and the confidence, and only a fully passing verdict with a
\* confidence of 1 (given, or by default) scores 1.
C16_ScoreAsStated ==
    score["correctness"] # <<>> =>
        /\ C16_Formula
        /\ score["correctness"] = <<100>> => C16_Base = 10 /\ C16_Confidence = 10

\* C16, amended: the correctness score is the clamped product of the
\* deductions and the confidence; among the verdicts whose confidence is
\* missing or within [0, 1], exactly the fully passing ones with a
\* confidence of 1 score 1; a score of 1 otherwise takes a confidence above 1.
C16_Score ==
    score["correctness"] # <<>> =>
        /\ C16_Formula
        /\ C16_Confidence \in 0..10 =>
              (score["correctness"] = <<100>> <=> C16_Base = 10 /\ C16_Confidence = 10)
        /\ score["correctness"] = <<100>> => C16_Confidence >= 10

\* A verdict that fails the best-practices check has scored 1 on a
\* confidence of 1.5.
C16_Witness ==
    /\ score["correctness"] = <<100>>
    /\ C16_Verdict.hasBestPractices = <<FALSE>>
    /\ C16_Verdict.confidence = <<MaxJudgeNumber>>

-----------------------------------------------------------------------------
(* Properties of the three tools together *)

\* The three tools have run on the query.
C17_AllCalled == {"validate", "explain", "optimize"} \subseteq called

C17_Warned == W_SelectStar \in Range(vres.warnings)

C17_Noted == N_SelectStar \in Range(ores[1].improvements)

C17_Explained ==
    \E k \in 1..Len(eres[1].components) : eres[1].components[k].part = S_SELECT_STAR

\* C17: the validator, the explainer and the optimizer agree on SELECT *.
\* On every query the validator's warning, the optimizer's note and the
\* explainer's component come together or not at all, whatever white space
\* stands between SELECT and the star.
C17_Agree ==
    C17_AllCalled => (C17_Warned <=> C17_Noted) /\ (C17_Noted <=> C17_Explained)

\* SELECT and the star are a tab apart: the explainer has the component, the
\* validator and the optimizer have nothing.
C17_TabApart ==
    /\ C17_AllCalled
    /\ sql = S_SELECT \o <<"\t", "*">>
    /\ C17_Explained /\ ~C17_Warned /\ ~C17_Noted

\* SELECT and the star are one space apart: the three tools agree.
C17_OneSpace ==
    /\ C17_AllCalled
    /\ sql = S_SELECT \o <<" ", "*">>
    /\ C17_Explained /\ C17_Warned /\ C17_Noted

-----------------------------------------------------------------------------
(* Properties of the generate-sql step *)

\* No stream is opened without an agent: the lookup comes before the call of
\* the agent.
C18_LookupFirst == step.opened => step.hasAgent /\ step.pc \notin {"input", "agent"}

\* The step returns only when the text stream is exhausted; response and
\* explanation are the chunks in the order they arrived; the sql is a part of
\* the response, the content of a fenced block or the whole response.
C18_Returned ==
    step.pc = "done" =>
        LET out == step.output[1]
        IN  /\ step.exhausted
            /\ out.response = Concat(step.stdout)
            /\ out.explanation = Concat(step.stdout)
            /\ includes(out.response, out.sql)
            /\ out.sql = out.response \/ includes(out.response, Fence)

\* C18 as stated: the agent lookup precedes any call of the agent, a missing
\* agent fails the step with 'SQL agent not found' before a stream is opened,
\* and a step that returns has read the whole stream, answers with the chunks
\* in arrival order and with a sql that is a part of the response.
C18_StepAsStated ==
    /\ C18_LookupFirst
    /\ C18_Returned
    /\ step.output # <<>> => step.pc = "done"
    /\ ~step.hasAgent /\ step.pc = "failed" => step.error = E_NoAgent /\ ~step.opened

\* C18, amended: as stated, but a missing agent fails the step with 'SQL
\* agent not found' only when there is input data; without input data the
\* step fails earlier with 'Input data not found', agent or no agent.
C18_Step ==
    /\ C18_LookupFirst
    /\ C18_Returned
    /\ step.output # <<>> => step.pc = "done"
    /\ ~step.hasAgent /\ step.pc = "failed" =>
          /\ ~step.opened
          /\ step.error = (IF step.inputData = <<>> THEN E_NoInput ELSE E_NoAgent)
    /\ step.inputData = <<>> /\ step.pc # "input" =>
          step.pc = "failed" /\ step.error = E_NoInput

\* The step has returned the content of a block tagged sql that came in
\* three chunks.
C18_Witness ==
    /\ step.pc = "done"
    /\ step.stdout = <<S_FenceSql, <<"x">>, S_FenceEnd>>
    /\ step.output[1].sql = <<"x">>
    /\ step.output[1].response = S_FenceSql \o <<"x">> \o S_FenceEnd

\* The step has failed for want of an agent, with input data.
C18_NoAgent ==
    /\ step.pc = "failed"
    /\ ~step.hasAgent
    /\ step.inputData # <<>>
    /\ step.error = E_NoAgent

=============================================================================
